---- MODULE Spec2Model ----
(***************************************************************************)
(* The Cryptopunks ink! contract (src/lib.rs) as a state machine.          *)
(*                                                                         *)
(* The storage struct is the state; every #[ink(message)] is one action.   *)
(* A message that panics (a failed assert!/expect, an arithmetic overflow  *)
(* in a build with overflow checks) traps, and the host discards every     *)
(* storage write of that call: the action leaves the storage unchanged and *)
(* records the failure in `call`.                                          *)
(*                                                                         *)
(* Rust integer overflow depends on the build: with overflow checks the    *)
(* operation panics, without them the u32 wraps.  `overflow_checks` is the *)
(* build's choice, fixed at construction; both builds are explored.        *)
(***************************************************************************)
EXTENDS Integers, FiniteSets, Sequences, TLC

\* ---------------------------------------------------------------- bounds
\* Stand-in for the supply and the quota (1000 in the constructor).
Supply == 2
\* Stand-in for 2^32, the modulus of u32 arithmetic; above every count
\* that a run from the constructor's supply of 1000 reaches.
U32Mod == 4096
\* Largest amount of currency a caller asks or pays.
MaxAmount == 1
\* Largest asset index that callers offer for sale and try to buy.
MaxOfferIndex == 0
\* Number of calls in a run.
MaxCalls == 5
\* Number of calls in a run from the constructor's supply.
ScenarioCalls == 3
\* Number of calls, nested ones included, in a run with callbacks.
ReentrantCalls == 8

\* Asset indices the model distinguishes: 0 .. 2*Supply - 1, the indices the
\* reservation runs can reach; those from Supply on lie outside the supply.
MaxIndex == 2 * Supply - 1
Indices == 0..MaxIndex
OfferIndices == 0..MaxOfferIndex
\* max_for_this_run values: below, at and above the quota.
MaxRuns == 0..(Supply + 1)
Amounts == 0..MaxAmount

Accounts == {"alice", "bob", "charlie"}
\* The caller of the constructor.
Deployer == "alice"
\* Option::None for an AccountId, and for a number stored in a Mapping.
NoAccount == "none"
NoValue == -1

VARIABLES
    owner,
    total_supply,
    punks_remaining_to_assign,
    number_of_punks_to_reserve,
    number_of_punks_reserved,
    next_punk_index_to_assign,
    punk_index_to_address,
    punks_offered_for_sale,
    pending_withdrawals,
    balance_of,
    overflow_checks,
    call,
    ncalls,
    frames,
    credited,
    paid_out

storage == <<owner, total_supply, punks_remaining_to_assign,
             number_of_punks_to_reserve, number_of_punks_reserved,
             next_punk_index_to_assign, punk_index_to_address,
             punks_offered_for_sale, pending_withdrawals, balance_of>>

\* The funds side of the contract, kept by the host: what successful buy_punk
\* calls paid in for each seller, what env().transfer paid out to each
\* account, and the withdraw calls that are inside env().transfer.
escrow == <<frames, credited, paid_out>>

vars == <<storage, overflow_checks, call, ncalls, escrow>>

\* ---------------------------------------------------------------- helpers
\* A value of type u32 after an operation whose exact result is x.
Overflows(x) == x < 0 \/ x >= U32Mod
Wrap(x) == x % U32Mod

\* Mapping::get(..).unwrap_or(0)
unwrap_or_0(v) == IF v = NoValue THEN 0 ELSE v

\* Mapping<u32, Offer>::get of a key never inserted.
NoOffer ==
    [exists |-> FALSE, is_for_sale |-> FALSE, seller |-> NoAccount,
     min_value |-> 0, only_sell_to |-> NoAccount]

\* The Offer struct as stored.
Offer(is_for_sale, seller, min_value, only_sell_to) ==
    [exists |-> TRUE, is_for_sale |-> is_for_sale, seller |-> seller,
     min_value |-> min_value, only_sell_to |-> only_sell_to]

\* The record of the last completed call: the message, its caller, the asset
\* index and the amount it was given (max_for_this_run, or the transferred
\* balance of buy_punk), how it ended, the pending withdrawal that the call
\* found for the account it credits or pays (buy_punk: the seller, withdraw:
\* the caller), and the amount env().transfer released.
Call(op, caller, punk_index, value, result, prior, released) ==
    [op |-> op, caller |-> caller, punk_index |-> punk_index, value |-> value,
     result |-> result, prior |-> prior, released |-> released]

\* The call just completed, and how it ended.
Did(c, op) == c.op = op
Ok(c) == c.result = "ok"

\* A panic: the call traps and none of its storage writes persist.
Revert(c) ==
    /\ call' = c
    /\ UNCHANGED <<storage, overflow_checks>>

\* ---------------------------------------------------------------- new
Init ==
    /\ owner = Deployer
    /\ total_supply = Supply
    /\ punks_remaining_to_assign = Supply
    /\ number_of_punks_to_reserve = Supply
    /\ number_of_punks_reserved = 0
    /\ next_punk_index_to_assign = 0
    /\ punk_index_to_address = [i \in Indices |-> NoAccount]
    /\ punks_offered_for_sale = [i \in Indices |-> NoOffer]
    /\ pending_withdrawals = [a \in Accounts |-> NoValue]
    /\ balance_of = [a \in Accounts |-> NoValue]
    /\ overflow_checks \in BOOLEAN
    /\ call = Call("new", Deployer, NoValue, 0, "ok", NoValue, 0)
    /\ ncalls = 0
    /\ frames = << >>
    /\ credited = [a \in Accounts |-> 0]
    /\ paid_out = [a \in Accounts |-> 0]

\* ---------------------------------------------------------------- get_punk
\* Variant of get_punk_balance that leaves the claimer's count as it was.
get_punk_balance_same(amount) == amount

\* balance_of.insert(caller, amount + 1)
get_punk_balance(amount) == amount + 1

\* Variant of is_unassigned that lets an assigned asset be claimed again.
is_unassigned_always(holder) == TRUE

\* assert_eq!(punk_index_to_address.get(punk_index), None)
is_unassigned(holder) == holder = NoAccount

get_punk(caller, punk_index) ==
    LET c(result) == Call("get_punk", caller, punk_index, 0, result, NoValue, 0)
        amount == unwrap_or_0(balance_of[caller])
        balance == get_punk_balance(amount)
        remaining == punks_remaining_to_assign - 1
    IN
    IF ~(punks_remaining_to_assign > 0) THEN Revert(c("SupplyExhausted"))
    ELSE IF ~is_unassigned(punk_index_to_address[punk_index])
        THEN Revert(c("AssetAlreadyAssigned"))
    ELSE IF overflow_checks /\ (Overflows(balance) \/ Overflows(remaining))
        THEN Revert(c("ArithmeticOverflow"))
    ELSE
        /\ punk_index_to_address' = [punk_index_to_address EXCEPT ![punk_index] = caller]
        /\ balance_of' = [balance_of EXCEPT ![caller] = Wrap(balance)]
        /\ punks_remaining_to_assign' = Wrap(remaining)
        /\ call' = c("ok")
        /\ UNCHANGED <<owner, total_supply, number_of_punks_to_reserve,
                       number_of_punks_reserved, next_punk_index_to_assign,
                       punks_offered_for_sale, pending_withdrawals, overflow_checks>>

\* ---------------------------------------------------------------- reserve_punks_for_owner
\* The while loop: `run` is number_punks_reserved_this_run, `next` is
\* next_punk_index_to_assign.  The loop turns while run < to_reserve and
\* run < max_for_this_run, and each turn inserts the caller at `next`,
\* whatever the mapping held there, and adds one to both: after `turns` turns
\* the caller holds the indices next .. next + turns - 1.  Yields the
\* mapping, the index and the counter after the last turn.
reserve_loop(map, next, run, to_reserve, max_for_this_run, caller) ==
    LET limit == IF to_reserve < max_for_this_run THEN to_reserve
                 ELSE max_for_this_run
        turns == IF run < limit THEN limit - run ELSE 0
    IN [map |-> [i \in DOMAIN map |->
                    IF next <= i /\ i < next + turns THEN caller ELSE map[i]],
        next |-> next + turns,
        run |-> run + turns]

\* assert!(number_of_punks_reserved <= number_of_punks_to_reserve)
reserve_allowed(reserved, to_reserve) == reserved <= to_reserve

\* Variant of reserve_balance that forgets what the caller held before the run.
reserve_balance_run(previous_balance, run) == run

\* balance_of.insert(caller, previous_balance + number_punks_reserved_this_run)
reserve_balance(previous_balance, run) == previous_balance + run

reserve_punks_for_owner(caller, max_for_this_run) ==
    LET c(result) == Call("reserve_punks_for_owner", caller, NoValue,
                          max_for_this_run, result, NoValue, 0)
        loop == reserve_loop(punk_index_to_address, next_punk_index_to_assign, 0,
                             number_of_punks_to_reserve, max_for_this_run, caller)
        remaining == punks_remaining_to_assign - loop.run
        reserved == number_of_punks_reserved + loop.run
        previous_balance == unwrap_or_0(balance_of[caller])
        balance == reserve_balance(previous_balance, loop.run)
    IN
    IF caller # owner THEN Revert(c("Unauthorized"))
    ELSE IF ~reserve_allowed(number_of_punks_reserved, number_of_punks_to_reserve)
        THEN Revert(c("AlreadyReserved"))
    ELSE IF overflow_checks /\ (Overflows(loop.next) \/ Overflows(remaining)
                                \/ Overflows(reserved) \/ Overflows(balance))
        THEN Revert(c("ArithmeticOverflow"))
    ELSE
        /\ punk_index_to_address' = loop.map
        /\ next_punk_index_to_assign' = Wrap(loop.next)
        /\ punks_remaining_to_assign' = Wrap(remaining)
        /\ number_of_punks_reserved' = Wrap(reserved)
        /\ balance_of' = [balance_of EXCEPT ![caller] = Wrap(balance)]
        /\ call' = c("ok")
        /\ UNCHANGED <<owner, total_supply, number_of_punks_to_reserve,
                       punks_offered_for_sale, pending_withdrawals, overflow_checks>>

\* ---------------------------------------------------------------- transfer_punk
\* balance_of.insert(caller, holder_balance - 1)
holder_after(holder_balance) == holder_balance - 1

\* balance_of.insert(to, receiver_balance + 1)
receiver_after(receiver_balance) == receiver_balance + 1

\* Variant of is_holder that lets any caller transfer the asset.
is_holder_anyone(holder, caller) == TRUE

\* assert_eq!(owner, caller)
is_holder(holder, caller) == holder = caller

transfer_punk(caller, to, punk_index) ==
    LET c(result) == Call("transfer_punk", caller, punk_index, 0, result, NoValue, 0)
        holder == punk_index_to_address[punk_index]
        holder_balance == balance_of[caller]
        debited == [balance_of EXCEPT ![caller] = Wrap(holder_after(holder_balance))]
        \* read after the holder's entry was written: to may be the caller
        receiver_balance == unwrap_or_0(debited[to])
    IN
    IF holder = NoAccount THEN Revert(c("AssetUnassigned"))
    ELSE IF ~is_holder(holder, caller) THEN Revert(c("NotOwner"))
    ELSE IF holder_balance = NoValue THEN Revert(c("HolderHasNoBalance"))
    ELSE IF overflow_checks /\ (Overflows(holder_after(holder_balance))
                                \/ Overflows(receiver_after(receiver_balance)))
        THEN Revert(c("ArithmeticOverflow"))
    ELSE
        /\ punk_index_to_address' = [punk_index_to_address EXCEPT ![punk_index] = to]
        /\ balance_of' = [debited EXCEPT ![to] = Wrap(receiver_after(receiver_balance))]
        /\ call' = c("ok")
        /\ UNCHANGED <<owner, total_supply, punks_remaining_to_assign,
                       number_of_punks_to_reserve, number_of_punks_reserved,
                       next_punk_index_to_assign, punks_offered_for_sale,
                       pending_withdrawals, overflow_checks>>

\* ---------------------------------------------------------------- offer_punk_for_sale
offer_punk_for_sale(caller, punk_index, min_sale_price, address) ==
    LET c(result) == Call("offer_punk_for_sale", caller, punk_index, 0, result, NoValue, 0)
    IN
    IF punk_index_to_address[punk_index] # caller THEN Revert(c("NotOwner"))
    ELSE
        /\ punks_offered_for_sale' =
               [punks_offered_for_sale EXCEPT
                   ![punk_index] = Offer(TRUE, caller, min_sale_price, address)]
        /\ call' = c("ok")
        /\ UNCHANGED <<owner, total_supply, punks_remaining_to_assign,
                       number_of_punks_to_reserve, number_of_punks_reserved,
                       next_punk_index_to_assign, punk_index_to_address,
                       pending_withdrawals, balance_of, overflow_checks>>

\* ---------------------------------------------------------------- buy_punk
\* The offer no_longer_for_sale stores: the seller field is the caller of
\* the running message, that is the buyer.
no_longer_for_sale(caller) == Offer(FALSE, caller, 0, NoAccount)

\* Variant of buyer_allowed that ignores only_sell_to.
buyer_allowed_anyone(offer, caller) == TRUE

\* if offer.only_sell_to.is_some() { assert_eq!(offer.only_sell_to, Some(caller)) }
buyer_allowed(offer, caller) ==
    offer.only_sell_to # NoAccount => offer.only_sell_to = caller

\* Variant of payment_sufficient that asks for more than min_value.
payment_sufficient_strict(balance, offer) == balance > offer.min_value

\* assert!(balance >= offer.min_value)
payment_sufficient(balance, offer) == balance >= offer.min_value

\* Variant of credit_seller that adds the payment to the pending amount.
credit_seller_adds(pending, seller, balance) ==
    [pending EXCEPT ![seller] = unwrap_or_0(@) + balance]

\* Variant of credit_seller that credits twice the payment.
credit_seller_twice(pending, seller, balance) ==
    [pending EXCEPT ![seller] = 2 * balance]

\* pending_withdrawals.insert(offer.seller, &balance)
credit_seller(pending, seller, balance) == [pending EXCEPT ![seller] = balance]

\* Variant of buy_registry that hands the asset to the buyer.
buy_registry_moves(registry, punk_index, caller) ==
    [registry EXCEPT ![punk_index] = caller]

\* Variant of seller_is_holder that settles an offer of a former owner.
seller_is_holder_unchecked(holder, offer) == TRUE

\* assert_eq!(punk_index_to_address.get(punk_index), Some(offer.seller))
seller_is_holder(holder, offer) == holder = offer.seller

\* What buy_punk writes to punk_index_to_address and balance_of: nothing.
buy_registry(registry, punk_index, caller) == registry

buy_punk(caller, punk_index, balance) ==
    LET offer == punks_offered_for_sale[punk_index]
        prior == IF offer.exists THEN pending_withdrawals[offer.seller] ELSE NoValue
        c(result) == Call("buy_punk", caller, punk_index, balance, result, prior, 0)
    IN
    IF ~offer.exists THEN Revert(c("NoActiveOffer"))
    ELSE IF ~offer.is_for_sale THEN Revert(c("OfferNotForSale"))
    ELSE IF ~buyer_allowed(offer, caller) THEN Revert(c("BuyerRestricted"))
    ELSE IF ~payment_sufficient(balance, offer) THEN Revert(c("InsufficientPayment"))
    ELSE IF ~seller_is_holder(punk_index_to_address[punk_index], offer)
        THEN Revert(c("SellerMismatch"))
    ELSE
        /\ pending_withdrawals' = credit_seller(pending_withdrawals, offer.seller, balance)
        /\ punks_offered_for_sale' =
               [punks_offered_for_sale EXCEPT ![punk_index] = no_longer_for_sale(caller)]
        /\ punk_index_to_address' = buy_registry(punk_index_to_address, punk_index, caller)
        /\ call' = c("ok")
        /\ UNCHANGED <<owner, total_supply, punks_remaining_to_assign,
                       number_of_punks_to_reserve, number_of_punks_reserved,
                       next_punk_index_to_assign, balance_of, overflow_checks>>

\* ---------------------------------------------------------------- withdraw
\* Variant of reset_pending that keeps the pending amount.
reset_pending_kept(pending, caller) == pending

\* pending_withdrawals.insert(caller, &0)
reset_pending(pending, caller) == [pending EXCEPT ![caller] = 0]

\* Variant of release_failed that keeps the zeroed entry of the caller.
release_failed_zeroed(c) ==
    /\ call' = c
    /\ pending_withdrawals' = reset_pending(pending_withdrawals, c.caller)
    /\ UNCHANGED <<owner, total_supply, punks_remaining_to_assign,
                   number_of_punks_to_reserve, number_of_punks_reserved,
                   next_punk_index_to_assign, punk_index_to_address,
                   punks_offered_for_sale, balance_of, overflow_checks>>

\* env().transfer(..).expect("Transfer failed") on an Err: the panic discards
\* the zeroing written before it.
release_failed(c) == Revert(c)

\* released: whether env().transfer(caller, amount) returned Ok.
withdraw(caller, released) ==
    LET amount == pending_withdrawals[caller]
        c(result, paid) == Call("withdraw", caller, NoValue, 0, result, amount, paid)
    IN
    IF amount = NoValue THEN Revert(c("NoPendingWithdrawal", 0))
    ELSE IF ~(amount > 0) THEN Revert(c("ZeroWithdrawal", 0))
    ELSE IF ~released THEN release_failed(c("FundsReleaseFailed", 0))
    ELSE
        /\ pending_withdrawals' = reset_pending(pending_withdrawals, caller)
        /\ call' = c("ok", amount)
        /\ UNCHANGED <<owner, total_supply, punks_remaining_to_assign,
                       number_of_punks_to_reserve, number_of_punks_reserved,
                       next_punk_index_to_assign, punk_index_to_address,
                       punks_offered_for_sale, balance_of, overflow_checks>>

\* ---------------------------------------------------------------- the contract
\* Calls are serialized: one runs to completion before the next begins.
\* A run of the model makes MaxCalls calls.  The funds are not followed.
Step(message) ==
    /\ ncalls < MaxCalls
    /\ ncalls' = ncalls + 1
    /\ message
    /\ UNCHANGED escrow

\* One call of a message, by any caller with any arguments.
Next ==
    \/ \E caller \in Accounts, max_for_this_run \in MaxRuns :
           Step(reserve_punks_for_owner(caller, max_for_this_run))
    \/ \E caller \in Accounts, punk_index \in Indices :
           Step(get_punk(caller, punk_index))
    \/ \E caller \in Accounts, to \in Accounts, punk_index \in Indices :
           Step(transfer_punk(caller, to, punk_index))
    \/ \E caller \in Accounts, punk_index \in OfferIndices, min_sale_price \in Amounts,
          address \in Accounts \cup {NoAccount} :
           Step(offer_punk_for_sale(caller, punk_index, min_sale_price, address))
    \/ \E caller \in Accounts, punk_index \in OfferIndices, balance \in Amounts :
           Step(buy_punk(caller, punk_index, balance))
    \/ \E caller \in Accounts, released \in BOOLEAN :
           Step(withdraw(caller, released))

Spec == Init /\ [][Next]_vars

\* ---------------------------------------------------------------- the constructor's supply
\* The contract as new() builds it: total_supply, punks_remaining_to_assign
\* and number_of_punks_to_reserve are all 1000.
ScenarioSupply == 1000
\* Half of the quota, the run of the owner's two reservations.
ScenarioRun == ScenarioSupply \div 2
\* The indices two full reservation runs can reach.
ScenarioIndices == 0..(2 * ScenarioSupply - 1)
\* The asset indices inside the supply.
SupplyIndices == 0..(ScenarioSupply - 1)
\* max_for_this_run values: none, half of the quota, all of it.
ScenarioRuns == {0, ScenarioRun, ScenarioSupply}
\* Indices that callers claim and transfer: the first and the last of the
\* supply and the first outside it.
ScenarioClaims == {0, ScenarioSupply - 1, ScenarioSupply}

ScenarioInit ==
    /\ owner = Deployer
    /\ total_supply = ScenarioSupply
    /\ punks_remaining_to_assign = ScenarioSupply
    /\ number_of_punks_to_reserve = ScenarioSupply
    /\ number_of_punks_reserved = 0
    /\ next_punk_index_to_assign = 0
    /\ punk_index_to_address = [i \in ScenarioIndices |-> NoAccount]
    /\ punks_offered_for_sale = [i \in OfferIndices |-> NoOffer]
    /\ pending_withdrawals = [a \in Accounts |-> NoValue]
    /\ balance_of = [a \in Accounts |-> NoValue]
    /\ overflow_checks \in BOOLEAN
    /\ call = Call("new", Deployer, NoValue, 0, "ok", NoValue, 0)
    /\ ncalls = 0
    /\ frames = << >>
    /\ credited = [a \in Accounts |-> 0]
    /\ paid_out = [a \in Accounts |-> 0]

\* A run from the constructor's supply makes ScenarioCalls calls.
ScenarioStep(message) ==
    /\ ncalls < ScenarioCalls
    /\ ncalls' = ncalls + 1
    /\ message
    /\ UNCHANGED escrow

\* One call of a message that assigns or moves assets; no offer is posted.
ScenarioNext ==
    \/ \E caller \in Accounts, max_for_this_run \in ScenarioRuns :
           ScenarioStep(reserve_punks_for_owner(caller, max_for_this_run))
    \/ \E caller \in Accounts, punk_index \in ScenarioClaims :
           ScenarioStep(get_punk(caller, punk_index))
    \/ \E caller \in Accounts, to \in Accounts, punk_index \in ScenarioClaims :
           ScenarioStep(transfer_punk(caller, to, punk_index))

SpecScenario == ScenarioInit /\ [][ScenarioNext]_vars

\* ---------------------------------------------------------------- withdraw with callbacks
\* env().transfer hands control to the host; where the host lets the
\* receiver run code, that code can call the contract again before withdraw
\* returns.  withdraw is then two steps: up to env().transfer, and its return.
\* Mapping::insert writes through to the contract's storage, so the nested
\* call reads what the outer call wrote.

\* What a trap of the outer call restores: the storage and the funds as they
\* were when the call began, nested calls' writes and payments included.
Snapshot ==
    [owner |-> owner, total_supply |-> total_supply,
     punks_remaining_to_assign |-> punks_remaining_to_assign,
     number_of_punks_to_reserve |-> number_of_punks_to_reserve,
     number_of_punks_reserved |-> number_of_punks_reserved,
     next_punk_index_to_assign |-> next_punk_index_to_assign,
     punk_index_to_address |-> punk_index_to_address,
     punks_offered_for_sale |-> punks_offered_for_sale,
     pending_withdrawals |-> pending_withdrawals,
     balance_of |-> balance_of,
     credited |-> credited, paid_out |-> paid_out]

Restore(saved) ==
    /\ owner' = saved.owner
    /\ total_supply' = saved.total_supply
    /\ punks_remaining_to_assign' = saved.punks_remaining_to_assign
    /\ number_of_punks_to_reserve' = saved.number_of_punks_to_reserve
    /\ number_of_punks_reserved' = saved.number_of_punks_reserved
    /\ next_punk_index_to_assign' = saved.next_punk_index_to_assign
    /\ punk_index_to_address' = saved.punk_index_to_address
    /\ punks_offered_for_sale' = saved.punks_offered_for_sale
    /\ pending_withdrawals' = saved.pending_withdrawals
    /\ balance_of' = saved.balance_of
    /\ credited' = saved.credited
    /\ paid_out' = saved.paid_out

\* withdraw up to the call of env().transfer: the two asserts, the zeroing
\* of the caller's entry, then the call is suspended in the host with the
\* amount it asked to release.
withdraw_enter(caller) ==
    LET amount == pending_withdrawals[caller]
        c(result) == Call("withdraw", caller, NoValue, 0, result, amount, 0)
    IN
    /\ ncalls < ReentrantCalls
    /\ ncalls' = ncalls + 1
    /\ IF amount = NoValue
           THEN Revert(c("NoPendingWithdrawal")) /\ UNCHANGED escrow
       ELSE IF ~(amount > 0)
           THEN Revert(c("ZeroWithdrawal")) /\ UNCHANGED escrow
       ELSE
           /\ pending_withdrawals' = reset_pending(pending_withdrawals, caller)
           /\ frames' = <<[caller |-> caller, amount |-> amount,
                           saved |-> Snapshot]>> \o frames
           /\ call' = c("releasing")
           /\ UNCHANGED <<owner, total_supply, punks_remaining_to_assign,
                          number_of_punks_to_reserve, number_of_punks_reserved,
                          next_punk_index_to_assign, punk_index_to_address,
                          punks_offered_for_sale, balance_of, overflow_checks,
                          credited, paid_out>>

\* The return of env().transfer to the innermost suspended withdraw: Ok, and
\* the amount has been paid to the caller; or Err, and expect("Transfer
\* failed") traps the call, which discards all it did.
withdraw_return(released) ==
    /\ frames # << >>
    /\ LET frame == Head(frames)
           c(result, paid) == Call("withdraw", frame.caller, NoValue, 0, result,
                                   frame.amount, paid)
       IN
       /\ frames' = Tail(frames)
       /\ UNCHANGED <<overflow_checks, ncalls>>
       /\ IF released
          THEN /\ paid_out' = [paid_out EXCEPT ![frame.caller] = @ + frame.amount]
               /\ call' = c("ok", frame.amount)
               /\ UNCHANGED <<storage, credited>>
          ELSE /\ Restore(frame.saved)
               /\ call' = c("FundsReleaseFailed", 0)

\* The payment of a successful buy_punk stays with the contract, on account
\* of the seller of the offer it settled.
payment_credited(c, seller) ==
    IF Did(c, "buy_punk") /\ Ok(c)
    THEN [credited EXCEPT ![seller] = @ + c.value]
    ELSE credited

\* A message other than withdraw, called from outside or from the code that
\* receives a release.
ReentrantStep(message) ==
    /\ ncalls < ReentrantCalls
    /\ ncalls' = ncalls + 1
    /\ message
    /\ credited' = payment_credited(call',
                       IF call'.punk_index \in OfferIndices
                       THEN punks_offered_for_sale[call'.punk_index].seller
                       ELSE NoAccount)
    /\ UNCHANGED <<frames, paid_out>>

\* Assets are claimed, offered and transferred at the offered indices only.
ReentrantNext ==
    \/ \E caller \in Accounts, punk_index \in OfferIndices :
           ReentrantStep(get_punk(caller, punk_index))
    \/ \E caller \in Accounts, punk_index \in OfferIndices, min_sale_price \in Amounts,
          address \in Accounts \cup {NoAccount} :
           ReentrantStep(offer_punk_for_sale(caller, punk_index, min_sale_price, address))
    \/ \E caller \in Accounts, punk_index \in OfferIndices, balance \in Amounts :
           ReentrantStep(buy_punk(caller, punk_index, balance))
    \/ \E caller \in Accounts, to \in Accounts, punk_index \in OfferIndices :
           ReentrantStep(transfer_punk(caller, to, punk_index))
    \/ \E caller \in Accounts : withdraw_enter(caller)
    \/ \E released \in BOOLEAN : withdraw_return(released)

SpecReentrant == Init /\ [][ReentrantNext]_vars

\* ---------------------------------------------------------------- observations
\* The assets an account owns according to punk_index_to_address.
Owned(a) == {i \in Indices : punk_index_to_address[i] = a}

\* The assets that have an owner.
Assigned == {i \in Indices : punk_index_to_address[i] # NoAccount}

\* balance_of read the way the contract reads it.
Balance(a) == unwrap_or_0(balance_of[a])

RECURSIVE SumOver(_, _)
SumOver(f, S) ==
    IF S = {} THEN 0
    ELSE LET a == CHOOSE x \in S : TRUE IN f[a] + SumOver(f, S \ {a})

SumBalances == SumOver([a \in Accounts |-> Balance(a)], Accounts)

\* The funds the contract holds: paid in by successful buy_punk calls and
\* not paid out by env().transfer.
Held == SumOver(credited, Accounts) - SumOver(paid_out, Accounts)

\* The sum of pending_withdrawals over all accounts.
PendingTotal ==
    SumOver([a \in Accounts |-> unwrap_or_0(pending_withdrawals[a])], Accounts)

\* The amounts that suspended withdraw calls have asked env().transfer for.
RECURSIVE SumAmounts(_)
SumAmounts(fs) == IF fs = << >> THEN 0 ELSE Head(fs).amount + SumAmounts(Tail(fs))

InRelease == SumAmounts(frames)

\* ---------------------------------------------------------------- claims
\* C1: in every reachable state the sum of balance_of over all accounts
\* equals total_supply - punks_remaining_to_assign.
C1_SupplyConservation ==
    SumBalances = total_supply - punks_remaining_to_assign

\* C2: after every completed call, balance_of[a] is the number of asset
\* indices whose owner is a, for every account a.
C2_BalanceCountsOwned ==
    \A a \in Accounts : Balance(a) = Cardinality(Owned(a))

\* C3: after every completed call, punks_remaining_to_assign plus the number
\* of assets that have an owner equals total_supply, and no call increases
\* punks_remaining_to_assign.
C3_RemainingPlusAssigned ==
    [][/\ punks_remaining_to_assign' + Cardinality(Assigned') = total_supply'
       /\ punks_remaining_to_assign' <= punks_remaining_to_assign]_vars

\* C4: a successful buy_punk leaves pending_withdrawals[offer.seller] equal
\* to the payment, whatever was pending for the seller before the call.
C4_BuyOverwritesPending ==
    [][(Did(call', "buy_punk") /\ Ok(call')) =>
          pending_withdrawals'[punks_offered_for_sale[call'.punk_index].seller]
              = call'.value]_vars

\* C4 witness: a sale settled for a seller who had another, different amount
\* pending; only the new payment is pending.
C4_Witness ==
    /\ Did(call, "buy_punk") /\ Ok(call)
    /\ call.prior > 0
    /\ call.value # call.prior
    /\ \E a \in Accounts : pending_withdrawals[a] = call.value

\* C5: a successful withdraw zeroes the caller's pending amount and releases
\* exactly the amount that was pending; a withdraw by the same caller right
\* after it fails and releases nothing; a withdraw by an account with no
\* entry or a zero entry fails and releases nothing.
C5_Withdraw ==
    [][Did(call', "withdraw") =>
          LET amount == pending_withdrawals[call'.caller] IN
          /\ Ok(call') =>
                /\ amount > 0
                /\ pending_withdrawals'[call'.caller] = 0
                /\ call'.released = amount
          /\ (Did(call, "withdraw") /\ Ok(call) /\ call'.caller = call.caller) =>
                ~Ok(call') /\ call'.released = 0
          /\ (amount = NoValue \/ amount = 0) =>
                /\ ~Ok(call') /\ call'.released = 0
                /\ UNCHANGED storage]_vars

\* C5 witness: a withdraw that failed on the zero entry an earlier withdraw
\* or sale left behind.
C5_Witness ==
    /\ Did(call, "withdraw")
    /\ call.result = "ZeroWithdrawal"
    /\ pending_withdrawals[call.caller] = 0

\* C6: buy_punk, successful or failed, changes neither punk_index_to_address
\* nor balance_of: the asset stays with the seller.
C6_BuyKeepsRegistry ==
    [][Did(call', "buy_punk") =>
          UNCHANGED <<punk_index_to_address, balance_of>>]_vars

\* C6 witness: a settled sale after which the buyer does not own the asset.
C6_Witness ==
    /\ Did(call, "buy_punk") /\ Ok(call)
    /\ punk_index_to_address[call.punk_index] # call.caller

\* C7: transfer_punk of an assigned asset by a caller who is not its owner
\* fails with NotOwner and changes nothing; a transfer_punk that changes the
\* owner of an asset was called by that asset's owner.
C7_TransferByNonOwner ==
    [][Did(call', "transfer_punk") =>
          LET holder == punk_index_to_address[call'.punk_index] IN
          /\ (holder # NoAccount /\ holder # call'.caller) =>
                call'.result = "NotOwner" /\ UNCHANGED storage
          /\ \A i \in Indices :
                punk_index_to_address'[i] # punk_index_to_address[i] =>
                    i = call'.punk_index /\ holder = call'.caller]_vars

\* C7 witness: a transfer refused because the caller is not the owner.
C7_Witness ==
    /\ Did(call, "transfer_punk")
    /\ call.result = "NotOwner"
    /\ punk_index_to_address[call.punk_index] \notin {NoAccount, call.caller}

\* C8: get_punk of an asset that already has an owner fails and changes
\* neither punk_index_to_address, balance_of nor punks_remaining_to_assign.
C8_ClaimAssigned ==
    [][(Did(call', "get_punk")
          /\ punk_index_to_address[call'.punk_index] # NoAccount) =>
             /\ ~Ok(call')
             /\ UNCHANGED <<punk_index_to_address, balance_of,
                            punks_remaining_to_assign>>]_vars

\* C8 witness: a claim refused because the asset is assigned.
C8_Witness ==
    /\ Did(call, "get_punk")
    /\ call.result = "AssetAlreadyAssigned"
    /\ punk_index_to_address[call.punk_index] # NoAccount

\* C9: with a for-sale offer whose seller owns the asset and a caller the
\* offer admits, buy_punk paying exactly min_value succeeds, and buy_punk
\* paying less fails with InsufficientPayment, the offer and
\* pending_withdrawals unchanged.
C9_MinimumPrice ==
    [][Did(call', "buy_punk") =>
          LET offer == punks_offered_for_sale[call'.punk_index] IN
          (/\ offer.exists /\ offer.is_for_sale
           /\ punk_index_to_address[call'.punk_index] = offer.seller
           /\ offer.only_sell_to \in {NoAccount, call'.caller}) =>
              /\ call'.value = offer.min_value => Ok(call')
              /\ call'.value < offer.min_value =>
                    /\ call'.result = "InsufficientPayment"
                    /\ punks_offered_for_sale'[call'.punk_index] = offer
                    /\ UNCHANGED <<punks_offered_for_sale, pending_withdrawals>>]_vars

\* C9 witness: a purchase refused for paying less than the price of an offer
\* that is otherwise valid, and that is still for sale.
C9_Witness ==
    LET offer == punks_offered_for_sale[call.punk_index] IN
    /\ Did(call, "buy_punk")
    /\ call.result = "InsufficientPayment"
    /\ offer.is_for_sale
    /\ call.value < offer.min_value
    /\ punk_index_to_address[call.punk_index] = offer.seller

\* C10: while the stored offer names a buyer in only_sell_to, buy_punk by
\* any other caller fails with BuyerRestricted whatever the payment, the
\* offer and pending_withdrawals unchanged; a buy_punk that succeeds was
\* called by that buyer, or on an offer that names none.
C10_RestrictedBuyer ==
    [][Did(call', "buy_punk") =>
          LET offer == punks_offered_for_sale[call'.punk_index] IN
          /\ (offer.only_sell_to # NoAccount /\ offer.only_sell_to # call'.caller) =>
                /\ call'.result = "BuyerRestricted"
                /\ UNCHANGED <<punks_offered_for_sale, pending_withdrawals>>
          /\ Ok(call') => offer.only_sell_to \in {NoAccount, call'.caller}]_vars

\* C10 witness: a purchase refused for the caller alone: the payment covers
\* the price and the seller owns the asset.
C10_Witness ==
    LET offer == punks_offered_for_sale[call.punk_index] IN
    /\ Did(call, "buy_punk")
    /\ call.result = "BuyerRestricted"
    /\ call.value >= offer.min_value
    /\ punk_index_to_address[call.punk_index] = offer.seller
    /\ call.caller # offer.seller

\* C11: in every reachable state number_of_punks_reserved is at most
\* number_of_punks_to_reserve.
C11_ReservedWithinQuota ==
    number_of_punks_reserved <= number_of_punks_to_reserve

\* C13: a successful reserve_punks_for_owner changes the owner of no asset
\* that had an owner before the call.
C13_ReserveKeepsAssigned ==
    [][(Did(call', "reserve_punks_for_owner") /\ Ok(call')) =>
          \A i \in Indices :
              punk_index_to_address[i] # NoAccount =>
                  punk_index_to_address'[i] = punk_index_to_address[i]]_vars

\* C14: every asset index that has an owner is below total_supply.
C14_AssignedWithinSupply ==
    \A i \in Assigned : i < total_supply

\* C15: reserve_punks_for_owner by the owner fails with AlreadyReserved and
\* changes nothing whenever number_of_punks_reserved is at least
\* number_of_punks_to_reserve, for every max_for_this_run.
C15_ReserveRefusedAtQuota ==
    [][(/\ Did(call', "reserve_punks_for_owner")
        /\ call'.caller = owner
        /\ number_of_punks_reserved >= number_of_punks_to_reserve) =>
           call'.result = "AlreadyReserved" /\ UNCHANGED storage]_vars

\* C16 as stated: transfer_punk leaves the stored offer of the asset
\* unchanged; a buy_punk succeeds only on an offer that is for sale and whose
\* seller owns the asset; while a stored offer's asset is owned by an account
\* other than offer.seller, every buy_punk on it fails with SellerMismatch and
\* changes neither the offer nor pending_withdrawals.
C16_StaleOfferAlwaysMismatch ==
    [][LET offer == punks_offered_for_sale[call'.punk_index]
           holder == punk_index_to_address[call'.punk_index] IN
       /\ Did(call', "transfer_punk") =>
             punks_offered_for_sale' = punks_offered_for_sale
       /\ Did(call', "buy_punk") =>
             /\ Ok(call') => offer.is_for_sale /\ holder = offer.seller
             /\ (offer.exists /\ holder \notin {NoAccount, offer.seller}) =>
                   /\ call'.result = "SellerMismatch"
                   /\ UNCHANGED <<punks_offered_for_sale, pending_withdrawals>>]_vars

\* C16 amended: transfer_punk leaves the stored offer of the asset unchanged;
\* a buy_punk succeeds only on an offer that is for sale and whose seller owns
\* the asset; while the asset's owner is not offer.seller every buy_punk on it
\* fails and changes neither the offer nor pending_withdrawals, and it fails
\* with SellerMismatch when the offer is for sale, admits the caller and the
\* payment covers min_value (the checks that come first).
C16_StaleOfferNotActionable ==
    [][LET offer == punks_offered_for_sale[call'.punk_index]
           holder == punk_index_to_address[call'.punk_index] IN
       /\ Did(call', "transfer_punk") =>
             punks_offered_for_sale' = punks_offered_for_sale
       /\ Did(call', "buy_punk") =>
             /\ Ok(call') => offer.is_for_sale /\ holder = offer.seller
             /\ holder # offer.seller =>
                   /\ ~Ok(call')
                   /\ UNCHANGED <<punks_offered_for_sale, pending_withdrawals>>
                   /\ (/\ offer.is_for_sale
                       /\ offer.only_sell_to \in {NoAccount, call'.caller}
                       /\ call'.value >= offer.min_value) =>
                          call'.result = "SellerMismatch"]_vars

\* C16 witness: a purchase refused with SellerMismatch on an offer still for
\* sale whose asset has passed to another account.
C16_Witness ==
    LET offer == punks_offered_for_sale[call.punk_index]
        holder == punk_index_to_address[call.punk_index] IN
    /\ Did(call, "buy_punk")
    /\ call.result = "SellerMismatch"
    /\ offer.is_for_sale
    /\ holder \notin {NoAccount, offer.seller}

\* C18: a withdraw whose funds release fails ends with FundsReleaseFailed,
\* releases nothing and leaves the whole storage, pending_withdrawals[caller]
\* included, as it was before the call; a withdraw by the same caller right
\* after it is not refused for a missing or zero amount, and when its release
\* goes through it releases that amount.
C18_FailedReleaseKeepsAmount ==
    [][Did(call', "withdraw") =>
          /\ call'.result = "FundsReleaseFailed" =>
                /\ UNCHANGED storage
                /\ call'.released = 0
                /\ call'.prior > 0
                /\ pending_withdrawals'[call'.caller] = call'.prior
          /\ (/\ Did(call, "withdraw")
              /\ call.result = "FundsReleaseFailed"
              /\ call'.caller = call.caller) =>
                /\ call'.result \in {"ok", "FundsReleaseFailed"}
                /\ Ok(call') => call'.released = call.prior]_vars

\* C18 witness: a withdraw that failed in the release, the amount still
\* pending for its caller.
C18_Witness ==
    /\ Did(call, "withdraw")
    /\ call.result = "FundsReleaseFailed"
    /\ call.prior > 0
    /\ pending_withdrawals[call.caller] = call.prior

\* C20: in every reachable state an account that owns an asset has a
\* balance_of entry, and balance_of[a] is at least the number of assets a
\* owns; a transfer_punk called by the owner of the asset succeeds, and when
\* the receiver is the caller it leaves balance_of unchanged.
C20_HolderHasBalance ==
    [][/\ \A a \in Accounts :
             /\ Owned(a) # {} => balance_of[a] # NoValue
             /\ Balance(a) >= Cardinality(Owned(a))
             /\ Owned(a)' # {} => balance_of'[a] # NoValue
             /\ Balance(a)' >= Cardinality(Owned(a)')
       /\ (/\ Did(call', "transfer_punk")
           /\ punk_index_to_address[call'.punk_index] = call'.caller) =>
              /\ Ok(call')
              /\ punk_index_to_address'[call'.punk_index] = call'.caller =>
                    balance_of' = balance_of]_vars

\* C20 witness: a transfer by the owner to the owner went through; the owner
\* still holds the asset.
C20_Witness ==
    /\ Did(call, "transfer_punk") /\ Ok(call)
    /\ punk_index_to_address[call.punk_index] = call.caller
    /\ balance_of[call.caller] >= 1

\* C12: from the constructed contract (total_supply and quota 1000) a first
\* reserve_punks_for_owner(500) by the owner succeeds, and a second one right
\* after it succeeds too and leaves punks_remaining_to_assign = 0,
\* balance_of[owner] = 1000 and the owner the owner of every index 0..999.
C12_TwoHalfRuns ==
    [][(/\ Did(call', "reserve_punks_for_owner")
        /\ call'.caller = owner
        /\ call'.value = ScenarioRun) =>
           /\ ncalls = 0 => Ok(call')
           /\ (/\ ncalls = 1
               /\ Did(call, "reserve_punks_for_owner") /\ Ok(call)
               /\ call.caller = owner /\ call.value = ScenarioRun) =>
                  /\ Ok(call')
                  /\ punks_remaining_to_assign' = 0
                  /\ balance_of'[owner] = ScenarioSupply
                  /\ \A i \in SupplyIndices : punk_index_to_address'[i] = owner]_vars

\* C12 witness: the state after the two runs of 500: the second call of the
\* run has completed and the whole quota is reserved.
C12_Witness ==
    /\ ncalls = 2
    /\ Did(call, "reserve_punks_for_owner") /\ Ok(call)
    /\ call.caller = owner /\ call.value = ScenarioRun
    /\ number_of_punks_reserved = ScenarioSupply
    /\ punks_remaining_to_assign = 0
    /\ balance_of[owner] = ScenarioSupply

\* C17: when withdraw hands control to env().transfer the caller's entry in
\* pending_withdrawals is already zero; a nested withdraw by the caller of a
\* suspended withdraw, with no payment credited to that caller since the
\* suspended call began, fails with ZeroWithdrawal, releases nothing and
\* changes nothing; and in every interleaving of nested calls the total paid
\* out to an account is at most the total that successful buy_punk calls
\* credited to it.
C17_NestedWithdrawFails ==
    [][/\ Len(frames') > Len(frames) =>
             pending_withdrawals'[Head(frames').caller] = 0
       /\ (/\ Did(call', "withdraw")
           /\ Len(frames') >= Len(frames)
           /\ \E k \in 1..Len(frames) :
                 /\ frames[k].caller = call'.caller
                 /\ frames[k].saved.credited[call'.caller] = credited[call'.caller]) =>
              /\ call'.result = "ZeroWithdrawal"
              /\ call'.released = 0
              /\ frames' = frames
              /\ UNCHANGED storage
       /\ \A a \in Accounts : paid_out'[a] <= credited'[a]]_vars

\* C17 witness: inside the release of a withdraw, a nested withdraw by the
\* same caller has failed on the zeroed entry.
C17_Witness ==
    /\ frames # << >>
    /\ Did(call, "withdraw")
    /\ call.caller = Head(frames).caller
    /\ call.result = "ZeroWithdrawal"
    /\ Head(frames).amount > 0
    /\ pending_withdrawals[call.caller] = 0

\* C19: in every reachable state, the states inside a release included, the
\* funds held (payments of successful buy_punk calls minus amounts paid out
\* by successful withdraw calls) cover the sum of pending_withdrawals plus
\* the amounts asked of env().transfer and not yet paid; so every amount a
\* withdraw asks to release is at most what the contract holds.
C19_EscrowSolvent ==
    /\ Held >= PendingTotal + InRelease
    /\ \A k \in 1..Len(frames) : frames[k].amount <= Held

\* C19 witness: a withdraw has paid out a sale's payment while the payment
\* of another sale is pending.
C19_Witness ==
    /\ Did(call, "withdraw") /\ Ok(call)
    /\ call.released > 0
    /\ PendingTotal > 0
    /\ Held >= PendingTotal
====
